---- MODULE Spec2Model ----
(***************************************************************************)
(* Drawing-session state machine of pikaso: the abstract ShapeDrawer       *)
(* (src/src/ShapeDrawer/index.ts) and the Pencil drawer                    *)
(* (src/unnamed/part_000), with two drawers of distinct types sharing one  *)
(* Board.  Pointer and key events are dispatched to every registered       *)
(* handler in registration order, as the stage and the window do.          *)
(***************************************************************************)
EXTENDS Integers, Sequences, FiniteSets, TLC

\* ---------------------------------------------------------------- bounds
\* A run commits shapes and points worth at most MaxInk: one unit for each
\* committed shape and one for each point of its point sequence.
MaxInk == 5

\* ------------------------------------------------------------ vocabulary
\* Two drawers of distinct types: the Pencil, and a concrete drawer that
\* inherits every handler of ShapeDrawer unchanged.
Drawers == {"Pencil", "Base"}
drawType == [d \in Drawers |-> d]
None == "none"                      \* Board.activeDrawing === null
Null == 0                           \* this.shape === null
NoPos == <<>>                       \* getPointerPosition() returned null
Undef == <<>>                       \* this.startPoint never assigned
Positions == {<<0, 0>>, <<1, 2>>}
Keys == {"Escape", "a"}
Sources == {"stageDown", "stageMove", "stageUp", "winUp", "winKey"}
EmptyCfg == [k \in {} |-> 0]
Configs == {EmptyCfg,
            ("globalCompositeOperation" :> "destination-out") @@
            ("points" :> <<5, 5>>)}

\* DraftConfigs passed to draw(): only the Pencil reads its DraftConfig.
DraftConfigs(d) == IF d = "Pencil" THEN Configs ELSE {EmptyCfg}

VARIABLES activeDrawing, cursor, shapes, shape, startPoint, config,
          listeners, last

vars == <<activeDrawing, cursor, shapes, shape, startPoint, config,
          listeners, last>>

\* The program state as one record, so that methods are operators on it.
\* err: the running handler threw; ret: value returned by insert().
S == [activeDrawing |-> activeDrawing, cursor |-> cursor, shapes |-> shapes,
      shape |-> shape, startPoint |-> startPoint, config |-> config,
      listeners |-> listeners, err |-> FALSE, ret |-> Null]

\* --------------------------------------------------------- collaborators
\* Board.setActiveDrawing
setActiveDrawing(s, t) == [s EXCEPT !.activeDrawing = t]

\* Board.addShape: registers the shape, returns it
addShape(s, attrs) ==
    [s EXCEPT !.shapes = Append(s.shapes, attrs), !.ret = Len(s.shapes) + 1]

\* Konva.Line.points() getter: the attribute, [] when absent
points(attrs) == IF "points" \in DOMAIN attrs THEN attrs["points"] ELSE <<>>

\* Konva.Line.points(v) setter
setPoints(attrs, v) == ("points" :> v) @@ attrs

RECURSIVE without(_, _)
without(hs, d) ==
    IF hs = <<>> THEN <<>>
    ELSE IF Head(hs) = d THEN without(Tail(hs), d)
    ELSE <<Head(hs)>> \o without(Tail(hs), d)

has(hs, d) == \E i \in 1..Len(hs) : hs[i] = d

\* stage.on(evt, handler): appends the handler
on(s, src, d) == [s EXCEPT !.listeners[src] = Append(@, d)]

\* stage.off(evt, handler): drops every registration of the handler
off(s, src, d) == [s EXCEPT !.listeners[src] = without(@, d)]

\* window.addEventListener: a handler is registered at most once
addEventListener(s, src, d) ==
    IF has(s.listeners[src], d) THEN s
    ELSE [s EXCEPT !.listeners[src] = Append(@, d)]

\* window.removeEventListener
removeEventListener(s, src, d) == [s EXCEPT !.listeners[src] = without(@, d)]

\* --------------------------------------------------------- ShapeDrawer
\* as isDrawing, but true of every drawer while any mode is active
isDrawing_anyMode(s, d) == s.activeDrawing # None

isDrawing(s, d) == s.activeDrawing = drawType[d]

\* as stopDrawing, but the window listeners are left registered
stopDrawing_keepsWindow(s, d) ==
    LET s1 == [s EXCEPT !.shape[d] = Null]
        s2 == setActiveDrawing(s1, None)
        s3 == [s2 EXCEPT !.cursor = "inherit"]
    IN  off(off(off(s3, "stageDown", d), "stageMove", d), "stageUp", d)

\* as stopDrawing, but an active drawer only leaves the mode and returns
stopDrawing_earlyReturn(s, d) ==
    IF isDrawing(s, d) THEN setActiveDrawing(s, None)
    ELSE LET s1 == [s EXCEPT !.shape[d] = Null, !.cursor = "inherit"]
             s4 == off(off(off(s1, "stageDown", d), "stageMove", d),
                       "stageUp", d)
         IN  removeEventListener(removeEventListener(s4, "winUp", d),
                                 "winKey", d)

stopDrawing(s, d) ==
    LET s1 == [s EXCEPT !.shape[d] = Null]
        s2 == setActiveDrawing(s1, None)
        s3 == [s2 EXCEPT !.cursor = "inherit"]
        s4 == off(off(off(s3, "stageDown", d), "stageMove", d), "stageUp", d)
    IN  removeEventListener(removeEventListener(s4, "winUp", d), "winKey", d)

\* as draw, without the stopDrawing() reset
draw_noStop(s, d, cfg) ==
    LET s1 == [s EXCEPT !.config[d] = cfg]
        s3 == setActiveDrawing(s1, drawType[d])
        s4 == on(on(on(s3, "stageDown", d), "stageMove", d), "stageUp", d)
    IN  addEventListener(addEventListener(s4, "winUp", d), "winKey", d)

draw(s, d, cfg) ==
    LET s1 == [s EXCEPT !.config[d] = cfg]
        s2 == stopDrawing(s1, d)
        s3 == setActiveDrawing(s2, drawType[d])
        s4 == on(on(on(s3, "stageDown", d), "stageMove", d), "stageUp", d)
    IN  addEventListener(addEventListener(s4, "winUp", d), "winKey", d)

\* Pencil.createShape: this.shape = new Konva.Line(config); board.addShape
Pencil_createShape(s, d, cfg) ==
    LET s1 == [s EXCEPT !.shape[d] = Len(s.shapes) + 1]
    IN  addShape(s1, cfg)

\* createShape of the other drawer: a factory that registers the shape
Base_createShape(s, d, cfg) == addShape(s, cfg)

createShape(s, d, cfg) ==
    IF d = "Pencil" THEN Pencil_createShape(s, d, cfg)
    ELSE Base_createShape(s, d, cfg)

\* as insert, without the stopDrawing() reset
insert_noStop(s, d, cfg) == createShape(s, d, cfg)

insert(s, d, cfg) == createShape(stopDrawing(s, d), d, cfg)

\* ShapeDrawer.onStartDrawing: destructuring a null position throws
ShapeDrawer_onStartDrawing(s, d, p) ==
    IF ~isDrawing(s, d) THEN s
    ELSE IF p = NoPos THEN [s EXCEPT !.err = TRUE]
    ELSE [s EXCEPT !.startPoint[d] = p]

ShapeDrawer_onDrawing(s, d, p) ==
    IF isDrawing(s, d) THEN [s EXCEPT !.cursor = "crosshair"] ELSE s

\* as onFinishDrawing, but the shape reference is kept
onFinishDrawing_keepsShape(s, d, p) == [s EXCEPT !.cursor = "inherit"]

\* as onFinishDrawing, but a shape that never grew is taken off the Board
onFinishDrawing_discards(s, d, p) ==
    LET i == s.shape[d]
        s1 == [s EXCEPT !.shape[d] = Null, !.cursor = "inherit"]
    IN  IF i # Null /\ Len(points(s.shapes[i])) = 2
        THEN [s1 EXCEPT !.shapes = SubSeq(s.shapes, 1, i - 1) \o
                                   SubSeq(s.shapes, i + 1, Len(s.shapes))]
        ELSE s1

\* as onFinishDrawing, but finishing a shape leaves drawing mode
onFinishDrawing_exitsMode(s, d, p) == stopDrawing(s, d)

onFinishDrawing(s, d, p) == [s EXCEPT !.shape[d] = Null, !.cursor = "inherit"]

\* as onKeyDown, but every key stops the drawing
onKeyDown_anyKey(s, d, key) == stopDrawing(s, d)

onKeyDown(s, d, key) == IF key = "Escape" THEN stopDrawing(s, d) ELSE s

\* -------------------------------------------------------------- Pencil
\* Reading .x of an unassigned startPoint throws.
Pencil_onStartDrawing(s, d, p) ==
    LET s1 == ShapeDrawer_onStartDrawing(s, d, p)
    IN  IF s1.err THEN s1
        ELSE IF s1.startPoint[d] = Undef THEN [s1 EXCEPT !.err = TRUE]
        ELSE createShape(s1, d,
                 s1.config[d] @@
                 ("points" :> s1.startPoint[d]) @@
                 ("globalCompositeOperation" :> "source-over"))

\* as Pencil_onDrawing, without the guard on this.shape
Pencil_onDrawing_noGuard(s, d, p) ==
    LET s1 == ShapeDrawer_onDrawing(s, d, p)
    IN  IF s1.shape[d] = Null \/ p = NoPos THEN [s1 EXCEPT !.err = TRUE]
        ELSE [s1 EXCEPT !.shapes[s1.shape[d]] =
                            setPoints(@, points(@) \o p)]

\* Reading .x of a null position throws.
Pencil_onDrawing(s, d, p) ==
    LET s1 == ShapeDrawer_onDrawing(s, d, p)
    IN  IF s1.shape[d] = Null THEN s1
        ELSE IF p = NoPos THEN [s1 EXCEPT !.err = TRUE]
        ELSE [s1 EXCEPT !.shapes[s1.shape[d]] =
                            setPoints(@, points(@) \o p)]

onStartDrawing(s, d, p) ==
    IF d = "Pencil" THEN Pencil_onStartDrawing(s, d, p)
    ELSE ShapeDrawer_onStartDrawing(s, d, p)

onDrawing(s, d, p) ==
    IF d = "Pencil" THEN Pencil_onDrawing(s, d, p)
    ELSE ShapeDrawer_onDrawing(s, d, p)

handle(s, src, d, a) ==
    CASE src = "stageDown" -> onStartDrawing(s, d, a)
      [] src = "stageMove" -> onDrawing(s, d, a)
      [] src = "winKey" -> onKeyDown(s, d, a)
      [] OTHER -> onFinishDrawing(s, d, a)

\* One event delivered to the handlers hs in registration order.  A handler
\* that throws ends the delivery (only stage handlers can throw).
RECURSIVE fire(_, _, _, _)
fire(s, src, hs, a) ==
    IF hs = <<>> THEN s
    ELSE LET s1 == handle(s, src, Head(hs), a)
         IN  IF s1.err THEN s1 ELSE fire(s1, src, Tail(hs), a)

dispatch(s, src, a) == fire(s, src, s.listeners[src], a)

\* ------------------------------------------------------------ behaviour
attached(s, d) == \E src \in Sources : has(s.listeners[src], d)
fullyAttached(s, d) == \A src \in Sources : has(s.listeners[src], d)
attachedSet(s) == {d \in Drawers : attached(s, d)}
holders(s) == {d \in Drawers : s.shape[d] # Null}

\* Commit the result t of operation op.  last records the call for the
\* properties: its drawer, argument and outcome; for stopDrawing whether the
\* drawer held a shape (preHeld) and whether it repeats a stopDrawing of the
\* same drawer (rep); for a pointer-down whether it follows a pointer-up.
Commit(t, op, d, a) ==
    /\ activeDrawing' = t.activeDrawing
    /\ cursor' = t.cursor
    /\ shapes' = t.shapes
    /\ shape' = t.shape
    /\ startPoint' = t.startPoint
    /\ config' = t.config
    /\ listeners' = t.listeners
    /\ last' = [op |-> op, d |-> d, arg |-> a, err |-> t.err, ret |-> t.ret,
                preHeld |-> IF op = "stop" THEN shape[d] # Null ELSE FALSE,
                rep |-> (op = "stop" /\ last.op = op /\ last.d = d),
                afterUp |-> (op = "down" /\ last.op \in {"up", "winUp"})]

\* The bound on a run (see MaxInk).
RECURSIVE ink(_)
ink(ss) == IF ss = <<>> THEN 0
           ELSE 1 + (Len(points(Head(ss))) \div 2) + ink(Tail(ss))

Init ==
    /\ activeDrawing = None
    /\ cursor = "inherit"
    /\ shapes = <<>>
    /\ shape = [d \in Drawers |-> Null]
    /\ startPoint = [d \in Drawers |-> Undef]
    /\ config = [d \in Drawers |-> EmptyCfg]
    /\ listeners = [src \in Sources |-> <<>>]
    /\ last = [op |-> "init", d |-> "-", arg |-> <<>>, err |-> FALSE,
               ret |-> Null, preHeld |-> FALSE,
               rep |-> FALSE, afterUp |-> FALSE]

Draw ==
    /\ \E d \in Drawers : \E cfg \in DraftConfigs(d) :
           Commit(draw(S, d, cfg), "draw", d, <<>>)

Insert ==
    /\ \E d \in Drawers, cfg \in Configs :
           /\ ink(shapes) + ink(<<cfg>>) <= MaxInk
           /\ Commit(insert(S, d, cfg), "insert", d, <<>>)

StopDrawing ==
    /\ \E d \in Drawers : Commit(stopDrawing(S, d), "stop", d, <<>>)

PointerDown ==
    /\ ink(shapes) + 2 <= MaxInk
    /\ listeners["stageDown"] # <<>>
    /\ \E p \in Positions \cup {NoPos} :
           Commit(dispatch(S, "stageDown", p), "down", "-", p)

PointerMove ==
    /\ listeners["stageMove"] # <<>>
    /\ ink(shapes) + 1 <= MaxInk
    /\ \E p \in Positions \cup {NoPos} :
           Commit(dispatch(S, "stageMove", p), "move", "-", p)

PointerUp ==
    /\ listeners["stageUp"] # <<>>
    /\ Commit(dispatch(S, "stageUp", <<>>), "up", "-", <<>>)

WindowPointerUp ==
    /\ listeners["winUp"] # <<>>
    /\ Commit(dispatch(S, "winUp", <<>>), "winUp", "-", <<>>)

KeyDown ==
    /\ listeners["winKey"] # <<>>
    /\ \E k \in Keys : Commit(dispatch(S, "winKey", k), "key", "-", k)

Next ==
    \/ Draw
    \/ Insert
    \/ StopDrawing
    \/ PointerDown
    \/ PointerMove
    \/ PointerUp
    \/ WindowPointerUp
    \/ KeyDown

Spec == Init /\ [][Next]_vars

TypeOK ==
    /\ activeDrawing \in {None} \cup {drawType[d] : d \in Drawers}
    /\ cursor \in {"inherit", "crosshair"}
    /\ ink(shapes) <= MaxInk
    /\ \A d \in Drawers : shape[d] \in 0..Len(shapes)

\* ------------------------------------------------------------ properties
core == <<activeDrawing, cursor, shapes, shape, startPoint, config, listeners>>

\* C1: the drawers whose listeners are attached are none when the Board's
\* DrawMode is none, and otherwise exactly the drawer of the active DrawMode.
C1_ListenersAgreeWithDrawMode ==
    attachedSet(S) = IF activeDrawing = None THEN {}
                     ELSE {d \in Drawers : drawType[d] = activeDrawing}

\* C2: when drawer a is in drawing mode and draw() is called on another
\* drawer b, afterwards a is not drawing and has no listener attached, and b
\* is drawing with all its listeners attached.
C2_DrawTakesOver ==
    [][\A a, b \in Drawers :
         (a # b /\ isDrawing(S, a) /\ last'.op = "draw" /\ last'.d = b)
         => /\ ~isDrawing(S', a)
            /\ ~attached(S', a)
            /\ isDrawing(S', b)
            /\ fullyAttached(S', b)]_vars

\* C3: at most one drawer reports isDrawing(), and a drawer reports it
\* exactly when the Board's DrawMode is its type.
C3_AtMostOneDrawing ==
    /\ Cardinality({d \in Drawers : isDrawing(S, d)}) <= 1
    /\ \A d \in Drawers : isDrawing(S, d) <=> activeDrawing = drawType[d]

\* one drawer is drawing while both drawers' listeners are attached
C3_Witness ==
    /\ isDrawing(S, "Base")
    /\ ~isDrawing(S, "Pencil")
    /\ attachedSet(S) = Drawers

\* C4: right after stopDrawing() on a drawer, its shape reference is null
\* and none of its listeners is attached.
C4_StopClearsDrawer ==
    last.op = "stop" => shape[last.d] = Null /\ ~attached(S, last.d)

\* stopDrawing() was called on the Pencil while it held a shape
C4_Witness ==
    /\ last.op = "stop"
    /\ last.d = "Pencil"
    /\ last.preHeld
    /\ shape["Pencil"] = Null
    /\ Len(shapes) > 0

\* C5: a stopDrawing() that directly follows a stopDrawing() of the same
\* drawer raises no error and changes nothing.
C5_StopIdempotent ==
    [][(last.op = "stop" /\ last'.op = "stop" /\ last'.d = last.d)
         => UNCHANGED core /\ ~last'.err /\ ~last.err]_vars

\* stopDrawing() was called twice in a row on a drawer that held a shape
C5_Witness ==
    /\ last.op = "stop"
    /\ last.rep
    /\ ~last.err
    /\ Len(shapes) > 0

\* C6: insert() appends exactly one shape, built from its config, to the
\* committed collection and returns it; afterwards the DrawMode is none and
\* the inserting drawer has no listener attached.
C6_InsertCommits ==
    [][last'.op = "insert"
         => /\ Len(shapes') = Len(shapes) + 1
            /\ SubSeq(shapes', 1, Len(shapes)) = shapes
            /\ shapes'[Len(shapes')] \in Configs
            /\ last'.ret = Len(shapes')
            /\ ~last'.err
            /\ activeDrawing' = None
            /\ ~attached(S', last'.d)]_vars

\* the Pencil inserted a second shape
C6_Witness ==
    /\ last.op = "insert"
    /\ last.d = "Pencil"
    /\ Len(shapes) = 2
    /\ last.ret = 2
    /\ activeDrawing = None

\* C7: a pointer-down at p0 handled by the Pencil in drawing mode creates a
\* shape whose points are exactly p0, and each later pointer-move at p
\* appends exactly p to the in-progress shape.
C7_PointsFollowPointer ==
    [][/\ (/\ last'.op = "down"
           /\ isDrawing(S, "Pencil")
           /\ has(listeners["stageDown"], "Pencil")
           /\ last'.arg # NoPos
           /\ ~last'.err)
          => /\ shape'["Pencil"] = Len(shapes')
             /\ Len(shapes') = Len(shapes) + 1
             /\ points(shapes'[shape'["Pencil"]]) = last'.arg
       /\ (/\ last'.op = "move"
           /\ isDrawing(S, "Pencil")
           /\ has(listeners["stageMove"], "Pencil")
           /\ shape["Pencil"] # Null
           /\ last'.arg # NoPos
           /\ ~last'.err)
          => /\ shape' = shape
             /\ points(shapes'[shape["Pencil"]])
                  = points(shapes[shape["Pencil"]]) \o last'.arg]_vars

\* C8: a pointer-move handled by the Pencil while it has no in-progress
\* shape creates no shape, changes no shape and raises no error.
C8_MoveWithoutShape ==
    [][(/\ last'.op = "move"
        /\ has(listeners["stageMove"], "Pencil")
        /\ shape["Pencil"] = Null)
         => shapes' = shapes /\ shape' = shape /\ ~last'.err]_vars

\* the listening Pencil handled a pointer-move before any pointer-down
C8_Witness ==
    /\ last.op = "move"
    /\ has(listeners["stageMove"], "Pencil")
    /\ isDrawing(S, "Pencil")
    /\ cursor = "crosshair"
    /\ shape["Pencil"] = Null
    /\ shapes = <<>>
    /\ ~last.err

\* C9: a pointer-move handled by a drawer that is not the active one leaves
\* the points of the shape that drawer holds unchanged, and leaves the
\* cursor unchanged when no handling drawer is active.
C9_InactiveMoveIgnored ==
    [][last'.op = "move"
         => /\ \A d \in Drawers :
                 (/\ has(listeners["stageMove"], d)
                  /\ ~isDrawing(S, d)
                  /\ shape[d] # Null)
                 => shapes'[shape[d]] = shapes[shape[d]]
            /\ (\A d \in Drawers :
                  has(listeners["stageMove"], d) => ~isDrawing(S, d))
               => cursor' = cursor]_vars

\* C10: a pointer-up keeps the DrawMode and the listeners and nulls the
\* shape of each handling drawer; a pointer-down that follows it in the
\* Pencil's drawing mode starts a new shape; the DrawMode changes only by
\* stopDrawing(), Escape, draw() or insert().
C10_FinishKeepsMode ==
    [][/\ last'.op \in {"up", "winUp"}
          => /\ activeDrawing' = activeDrawing
             /\ listeners' = listeners
             /\ shapes' = shapes
             /\ \A d \in Drawers :
                  has(listeners[IF last'.op = "up" THEN "stageUp"
                                ELSE "winUp"], d) => shape'[d] = Null
       /\ (/\ last'.op = "down"
           /\ last'.afterUp
           /\ isDrawing(S, "Pencil")
           /\ ~last'.err)
          => /\ Len(shapes') = Len(shapes) + 1
             /\ shape'["Pencil"] = Len(shapes')
       /\ activeDrawing' # activeDrawing
          => \/ last'.op \in {"stop", "draw", "insert"}
             \/ last'.op = "key" /\ last'.arg = "Escape"]_vars

\* after one finished stroke and a pointer-up the Pencil, still in drawing
\* mode, started a second shape on the next pointer-down
C10_Witness ==
    /\ last.op = "down"
    /\ last.afterUp
    /\ isDrawing(S, "Pencil")
    /\ fullyAttached(S, "Pencil")
    /\ Len(shapes) = 2
    /\ shape["Pencil"] = 2
    /\ "globalCompositeOperation" \in DOMAIN shapes[1]
    /\ shapes[1]["globalCompositeOperation"] = "source-over"

\* C11: with a pointer position available and at most one drawer attached,
\* no operation and no handler raises an error.
C11_NoOperationThrows ==
    (last.err /\ Cardinality(attachedSet(S)) <= 1)
        => (last.op \in {"down", "move"} /\ last.arg = NoPos)

\* C12: an Escape key-down nulls the shape of every drawer whose key
\* listener is attached, detaches it and clears the DrawMode, exactly as
\* that drawer's stopDrawing() when it is the only one attached; any other
\* key changes nothing; a drawer whose key listener is not attached is left
\* as it was.
C12_EscapeStops ==
    [][last'.op = "key"
         => /\ ~last'.err
            /\ last'.arg # "Escape" => UNCHANGED core
            /\ last'.arg = "Escape"
               => /\ activeDrawing' = None
                  /\ \A d \in Drawers :
                       IF has(listeners["winKey"], d)
                       THEN /\ shape'[d] = Null
                            /\ ~attached(S', d)
                            /\ listeners["winKey"] = <<d>>
                               => S' = stopDrawing(S, d)
                       ELSE /\ shape'[d] = shape[d]
                            /\ startPoint'[d] = startPoint[d]
                            /\ config'[d] = config[d]
                            /\ attached(S', d) = attached(S, d)]_vars

\* Escape ended the Pencil's drawing mode after it had drawn a stroke
C12_Witness ==
    /\ last.op = "key"
    /\ last.arg = "Escape"
    /\ activeDrawing = None
    /\ attachedSet(S) = {}
    /\ shape["Pencil"] = Null
    /\ Len(shapes) = 1
    /\ "globalCompositeOperation" \in DOMAIN shapes[1]
    /\ shapes[1]["globalCompositeOperation"] = "source-over"

\* C13: stopDrawing() on a drawer b while another drawer a is in drawing
\* mode leaves the DrawMode at a's type.
C13_StopOfInactiveKeepsMode ==
    [][\A a, b \in Drawers :
         (a # b /\ isDrawing(S, a) /\ last'.op = "stop" /\ last'.d = b)
         => activeDrawing' = drawType[a] /\ isDrawing(S', a)]_vars

\* C14: after a pointer-up, an Escape, a stopDrawing() or a draw() the
\* drawer holds no anchor, and a shape created by a pointer-down is seeded
\* with the anchor captured by that same pointer-down.
C14_AnchorReset ==
    [][/\ \A d \in Drawers :
            (\/ last'.op \in {"stop", "draw"} /\ last'.d = d
             \/ last'.op = "up" /\ has(listeners["stageUp"], d)
             \/ last'.op = "winUp" /\ has(listeners["winUp"], d)
             \/ /\ last'.op = "key"
                /\ last'.arg = "Escape"
                /\ has(listeners["winKey"], d))
            => startPoint'[d] = Undef
       /\ (last'.op = "down" /\ Len(shapes') > Len(shapes))
            => startPoint'["Pencil"] = last'.arg]_vars

\* C15: a drawer with no listener attached has no shape reference, and a
\* shape reference becomes non-null only in a pointer-down.
C15_IdleAndListeningHoldNoShape ==
    [][\A d \in Drawers :
         /\ ~attached(S', d) => shape'[d] = Null
         /\ (shape[d] = Null /\ shape'[d] # Null) => last'.op = "down"]_vars

\* C16: a pointer-down handled by the Pencil outside drawing mode leaves
\* its anchor, its shape reference and the committed collection unchanged.
C16_DownOutsideModeIsNoOp ==
    [][(/\ last'.op = "down"
        /\ has(listeners["stageDown"], "Pencil")
        /\ ~isDrawing(S, "Pencil"))
         => /\ startPoint'["Pencil"] = startPoint["Pencil"]
            /\ shape'["Pencil"] = shape["Pencil"]
            /\ shapes' = shapes]_vars

\* C17: the shape the Pencil creates on a pointer-down in drawing mode has
\* exactly one point, the anchor of that pointer-down, every key of the
\* DraftConfig, and composite operation 'source-over' unless the DraftConfig
\* sets one.
C17_SeededWithAnchor ==
    [][(/\ last'.op = "down"
        /\ has(listeners["stageDown"], "Pencil")
        /\ isDrawing(S, "Pencil")
        /\ ~last'.err)
         => LET a == shapes'[Len(shapes')]
                c == config["Pencil"]
            IN  /\ Len(shapes') = Len(shapes) + 1
                /\ startPoint'["Pencil"] = last'.arg
                /\ points(a) = last'.arg
                /\ DOMAIN c \subseteq DOMAIN a
                /\ \A k \in DOMAIN c \ {"points"} : a[k] = c[k]
                /\ "globalCompositeOperation" \notin DOMAIN c
                   => a["globalCompositeOperation"] = "source-over"]_vars

\* shape i was created by a Pencil pointer-down with the default composite
stroke(i) ==
    /\ "globalCompositeOperation" \in DOMAIN shapes[i]
    /\ shapes[i]["globalCompositeOperation"] = "source-over"

count(hs, d) == Cardinality({i \in 1..Len(hs) : hs[i] = d})
referenced(i) == \E d \in Drawers : shape[d] = i
isPrefix(a, b) == Len(a) <= Len(b) /\ SubSeq(b, 1, Len(a)) = a

\* C18: no step removes a committed shape: the collection keeps its shapes
\* in place and grows by at most one per step, by exactly one per insert()
\* and per pointer-down in the Pencil's drawing mode; a one-point shape
\* whose session ends by pointer-up, Escape or stopDrawing() stays committed
\* as it is.
C18_ShapesOnlyGrow ==
    [][/\ Len(shapes) <= Len(shapes')
       /\ Len(shapes') <= Len(shapes) + 1
       /\ \A i \in 1..Len(shapes) :
            /\ isPrefix(points(shapes[i]), points(shapes'[i]))
            /\ DOMAIN shapes[i] \subseteq DOMAIN shapes'[i]
            /\ \A k \in DOMAIN shapes[i] \ {"points"} :
                 shapes'[i][k] = shapes[i][k]
       /\ last'.op = "insert" => Len(shapes') = Len(shapes) + 1
       /\ (last'.op = "down" /\ isDrawing(S, "Pencil") /\ ~last'.err)
            => Len(shapes') = Len(shapes) + 1
       /\ (/\ shape["Pencil"] # Null
           /\ Len(points(shapes[shape["Pencil"]])) = 2
           /\ \/ last'.op \in {"up", "winUp", "stop"}
              \/ last'.op = "key" /\ last'.arg = "Escape")
            => shapes' = shapes]_vars

\* a stroke of one point was ended by a pointer-up and is still committed
C18_Witness ==
    /\ last.op \in {"up", "winUp"}
    /\ isDrawing(S, "Pencil")
    /\ shape["Pencil"] = Null
    /\ Len(shapes) = 1
    /\ points(shapes[1]) \in Positions
    /\ stroke(1)

\* C19: each way of ending a session releases the drawer's shape
\* reference; a committed shape that no drawer references is never changed
\* and never referenced again; a pointer-move while the Pencil holds no
\* shape changes no shape.
C19_EndedShapeIsFrozen ==
    [][/\ \A d \in Drawers :
            (\/ last'.op \in {"stop", "draw"} /\ last'.d = d
             \/ last'.op = "up" /\ has(listeners["stageUp"], d)
             \/ last'.op = "winUp" /\ has(listeners["winUp"], d)
             \/ /\ last'.op = "key"
                /\ last'.arg = "Escape"
                /\ has(listeners["winKey"], d))
            => shape'[d] = Null
       /\ \A d \in Drawers :
            (last'.op = "insert" /\ last'.d = d /\ shape[d] # Null)
            => shape'[d] # shape[d]
       /\ \A i \in 1..Len(shapes) :
            ~referenced(i)
            => shapes'[i] = shapes[i] /\ \A d \in Drawers : shape'[d] # i
       /\ (last'.op = "move" /\ shape["Pencil"] = Null)
            => shapes' = shapes]_vars

\* a pointer-move grew the second stroke and left the ended first one alone
C19_Witness ==
    /\ last.op = "move"
    /\ Len(shapes) = 2
    /\ shape["Pencil"] = 2
    /\ Len(points(shapes[2])) = 4
    /\ Len(points(shapes[1])) = 2
    /\ stroke(1)

\* C20: every drawer's handler is registered at most once per event source.
C20_RegisteredOnce ==
    \A src \in Sources : \A d \in Drawers : count(listeners[src], d) <= 1

\* draw() was called again on the Pencil after it had drawn a stroke
C20_Witness ==
    /\ last.op = "draw"
    /\ last.d = "Pencil"
    /\ fullyAttached(S, "Pencil")
    /\ Len(shapes) = 1
    /\ stroke(1)
    /\ points(shapes[1]) \in Positions
====
